---- MODULE Spec2Model ----
(***************************************************************************)
(* A model of BanMan (src/banman.cpp): the in-memory ban map m_banned, the *)
(* dirty flag m_is_dirty, the discouraged set, the ban database file       *)
(* written by DumpBanlist, and the threads that call BanMan's methods.     *)
(*                                                                         *)
(* Every access to m_banned / m_is_dirty / m_discouraged in the source is  *)
(* made under LOCK(m_cs_banned); one atomic step of the model is one such  *)
(* critical section.  GetTime() calls made outside the lock, the calls to  *)
(* the UI (BannedListChanged) and the file write are steps of their own,   *)
(* so other threads and the clock can move between them.                   *)
(***************************************************************************)
EXTENDS Integers, FiniteSets, Sequences, TLC

\* ------------------------------------------------------------- bounds
MaxTime == 3      \* the clock runs over 0..MaxTime
MaxUntil == 2     \* nBanUntil of the entries of a map given to SetBanned or found on disk
MaxOffset == 2    \* ban_time_offset arguments run up to MaxOffset
MaxNegOffset == 1 \* and down to -MaxNegOffset
NumThreads == 2   \* calling threads of the multi-threaded specification
MaxCalls == 2     \* public calls made after the constructor in one run
MaxFreshCalls == 3 \* the same, in the runs of a registry that starts empty
MaxLoaded == 1    \* entries of the map found in the ban file at startup

\* the constructor's default_ban_time argument
m_default_ban_time == 2

\* ------------------------------------------------------------- values
\* Addresses are 0 and 1.  A CSubNet is the set of addresses it covers: the
\* two single-host subnets and the subnet covering both.
Addrs == {0, 1}
Subnets == {{0, 1}, {0}, {1}}
Threads == 1..NumThreads

\* CSubNet::IsSuperset: a.IsSuperset(b)
IsSuperset(a, b) == b \subseteq a

\* CSubNet(const CNetAddr&): the single-host subnet of an address
SubNetOf(addr) == {addr}

\* banmap_t: a map from CSubNet to CBanEntry; of a CBanEntry banman.cpp reads
\* and compares nBanUntil only, so an entry is its nBanUntil.
EmptyMap == [s \in {} |-> 0]
Restrict(m, d) == [s \in d |-> m[s]]
\* the maps given to SetBanned, and those found in the ban file at startup
InputMaps == UNION {[d -> 1..MaxUntil] : d \in SUBSET Subnets}
LoadMaps == {m \in InputMaps : Cardinality(DOMAIN m) <= MaxLoaded}

\* the ban database file: unreadable (missing or corrupt), or holding a map
Unreadable == [ok |-> FALSE, map |-> EmptyMap]
Stored(m) == [ok |-> TRUE, map |-> m]

VARIABLES
    m_banned,           \* banmap_t m_banned
    m_is_dirty,         \* bool m_is_dirty
    m_discouraged,      \* the discouraged addresses
    m_client_interface, \* TRUE iff the CClientUIInterface* is not null
    ban_db,             \* contents of the ban file behind m_ban_db
    clock,              \* GetTime()
    pc,                 \* pc[t]: where thread t is
    stack,              \* stack[t]: return labels of the calls t is inside
    frame,              \* frame[t]: arguments and locals of t's current public call
    hist                \* history of completed calls (observation only)

vars == <<m_banned, m_is_dirty, m_discouraged, m_client_interface, ban_db, clock,
          pc, stack, frame, hist>>

\* ------------------------------------------------------------- frames
NoFrame ==
    [op |-> "none", sub_net |-> {}, ban_time_offset |-> 0, since_unix_epoch |-> FALSE,
     nBanUntil |-> 0, now |-> 0, notify_ui |-> FALSE,
     banmap |-> EmptyMap, result |-> FALSE, notified |-> 0, wrote |-> "none",
     announced |-> FALSE, lockedNotify |-> FALSE,
     pre |-> [banned |-> EmptyMap, dirty |-> FALSE, db |-> Unreadable, failed |-> FALSE]]

\* the frame of a call that starts now: it remembers the state it started from
NewFrame(op) ==
    [NoFrame EXCEPT !.op = op,
                    !.pre = [banned |-> m_banned, dirty |-> m_is_dirty, db |-> ban_db,
                            failed |-> hist.failed]]

Constructed == \A t \in Threads : frame[t].op # "BanMan"

Goto(t, label) == pc' = [pc EXCEPT ![t] = label]
\* return from the innermost call
Leave(t) ==
    /\ pc' = [pc EXCEPT ![t] = Head(stack[t])]
    /\ stack' = [stack EXCEPT ![t] = Tail(@)]
\* call DumpBanlist, which begins by calling SweepBanned
EnterDump(t, ret) ==
    /\ pc' = [pc EXCEPT ![t] = "Sweep_time"]
    /\ stack' = [stack EXCEPT ![t] = <<"Dump_check", ret>> \o @]

\* ------------------------------------------------------------- pure parts
\* Ban's expiry with a slip: a non-positive offset gets the default, but the
\* caller's since_unix_epoch is not overridden
NormalizedBanUntil_keepsEpoch(now, ban_time_offset, since_unix_epoch) ==
    LET normalized_ban_time_offset ==
            IF ban_time_offset <= 0 THEN m_default_ban_time ELSE ban_time_offset
    IN  (IF since_unix_epoch THEN 0 ELSE now) + normalized_ban_time_offset

\* Ban: the expiry of the new entry
NormalizedBanUntil(now, ban_time_offset, since_unix_epoch) ==
    LET normalized_ban_time_offset ==
            IF ban_time_offset <= 0 THEN m_default_ban_time ELSE ban_time_offset
        normalized_since_unix_epoch ==
            IF ban_time_offset <= 0 THEN FALSE ELSE since_unix_epoch
    IN  (IF normalized_since_unix_epoch THEN 0 ELSE now) + normalized_ban_time_offset

\* Variants of the definitions below, each with one slip, against which the
\* properties at the end of the module are tried: a property that such a slip
\* does not break says nothing about the code.
\* - every narrower entry is marked, whatever its expiry
EntriesToDelete_anyExpiry(banned, sub_net, nBanUntil) ==
    {s \in DOMAIN banned : IsSuperset(sub_net, s)}
\* - only the entry of the same key is marked
EntriesToDelete_sameKey(banned, sub_net, nBanUntil) ==
    {s \in DOMAIN banned : s = sub_net /\ nBanUntil > banned[s]}
\* - the containment test is turned round
EntriesToDelete_reversed(banned, sub_net, nBanUntil) ==
    {s \in DOMAIN banned : IsSuperset(s, sub_net) /\ s # sub_net /\ nBanUntil > banned[s]}
\* - an equal expiry no longer rejects
BanRejected_strict(banned, sub_net, nBanUntil) ==
    \E s \in DOMAIN banned :
        /\ ~(IsSuperset(sub_net, s) /\ nBanUntil > banned[s])
        /\ IsSuperset(s, sub_net) /\ nBanUntil < banned[s]
\* - an entry expiring this very second is swept too
SweepExpired_inclusive(banned, now) ==
    Restrict(banned, {s \in DOMAIN banned : ~(now >= banned[s])})
\* - nothing is ever swept
SweepExpired_never(banned, now) == banned
\* - an entry is swept a second late
SweepExpired_late(banned, now) ==
    Restrict(banned, {s \in DOMAIN banned : ~(now > banned[s] + 1)})
\* - the scan does not look at the expiry
HasBannedScan_noExpiry(banned, sub_net, current_time) ==
    \E s \in DOMAIN banned : IsSuperset(s, sub_net) \/ IsSuperset(sub_net, s)
\* - the flag is cleared whatever Write returned
ClearsDirty_always(write_ok) == TRUE
\* - the flag is never cleared
ClearsDirty_never(write_ok) == FALSE
\* - the constructor does not force the write
ForceWrite_not == FALSE

\* Ban: the entries the scan marks for deletion
EntriesToDelete(banned, sub_net, nBanUntil) ==
    {s \in DOMAIN banned : IsSuperset(sub_net, s) /\ nBanUntil > banned[s]}

\* Ban: the scan reaches "return false"
BanRejected(banned, sub_net, nBanUntil) ==
    \E s \in DOMAIN banned :
        /\ ~(IsSuperset(sub_net, s) /\ nBanUntil > banned[s])
        /\ IsSuperset(s, sub_net) /\ nBanUntil <= banned[s]

\* Ban: erase the marked entries, then m_banned[sub_net] = new_ban_entry
BanInsert(banned, sub_net, nBanUntil) ==
    LET keep == (DOMAIN banned \ EntriesToDelete(banned, sub_net, nBanUntil)) \cup {sub_net}
    IN  [s \in keep |-> IF s = sub_net THEN nBanUntil ELSE banned[s]]

\* SweepBanned: the map without the entries with now > nBanUntil
SweepExpired(banned, now) ==
    Restrict(banned, {s \in DOMAIN banned : ~(now > banned[s])})

\* HasBannedAddresses: the result of the scan
HasBannedScan(banned, sub_net, current_time) ==
    \E s \in DOMAIN banned :
        /\ IsSuperset(s, sub_net) \/ IsSuperset(sub_net, s)
        /\ current_time < banned[s]

\* DumpBanlist: SetBannedSetDirty(false) is reached iff Write returned true
ClearsDirty(write_ok) == write_ok

\* the constructor's SetBannedSetDirty(true) when Read failed
ForceWrite == TRUE

\* ------------------------------------------------------------- the clock
\* The places where a thread is about to call GetTime().
ReadsClock == {"Ban_time", "Has_time", "Sweep_time", "GetBanned"}

\* Time passes.  The program sees the clock only when it calls GetTime(), so a
\* tick is taken when some thread is about to do so; ticks at other moments
\* commute with the steps around them and lead to no other behaviour.
Tick ==
    /\ clock < MaxTime
    /\ \E t \in Threads : pc[t] \in ReadsClock
    /\ clock' = clock + 1
    /\ UNCHANGED <<m_banned, m_is_dirty, m_discouraged, m_client_interface, ban_db,
                   pc, stack, frame, hist>>

\* ------------------------------------------------------------- frame of actions
Shared == <<m_banned, m_is_dirty, m_discouraged, ban_db>>
Env == <<m_client_interface, clock>>

\* one more call of BannedListChanged by t's current call, when there is a UI
Notified(f) == [f EXCEPT !.notified = @ + (IF m_client_interface THEN 1 ELSE 0)]

\* BannedListChanged called by Ban, Unban or ClearBanned itself for its mutation
Announced(f) == [Notified(f) EXCEPT !.announced = m_client_interface]

CanCall(t) == pc[t] = "Idle" /\ Constructed /\ hist.calls < hist.limit
\* a public call begins
Called == hist' = [hist EXCEPT !.calls = @ + 1]

\* the constructor with a slip: after SetBanned the flag is not set back to false
BanMan_ctor_keepsDirty(t) ==
    /\ pc[t] = "Ctor"
    /\ IF ban_db.ok
       THEN /\ m_banned' = ban_db.map
            /\ m_is_dirty' = TRUE
            /\ Goto(t, "Sweep_time")
            /\ stack' = [stack EXCEPT ![t] = <<"Ret">>]
       ELSE /\ m_banned' = m_banned
            /\ m_is_dirty' = ForceWrite
            /\ EnterDump(t, "Ret")
    /\ UNCHANGED <<m_discouraged, ban_db, frame, hist, Env>>

\* ------------------------------------------------------------- BanMan::BanMan
\* m_is_dirty = false; Read; on success SetBanned, SetBannedSetDirty(false),
\* SweepBanned; on failure SetBannedSetDirty(true), DumpBanlist.
BanMan_ctor(t) ==
    /\ pc[t] = "Ctor"
    /\ IF ban_db.ok
       THEN /\ m_banned' = ban_db.map
            /\ m_is_dirty' = FALSE
            /\ Goto(t, "Sweep_time")
            /\ stack' = [stack EXCEPT ![t] = <<"Ret">>]
       ELSE /\ m_banned' = m_banned
            /\ m_is_dirty' = ForceWrite
            /\ EnterDump(t, "Ret")
    /\ UNCHANGED <<m_discouraged, ban_db, frame, hist, Env>>

\* ------------------------------------------------------------- BanMan::SweepBanned
SweepBanned_time(t) ==
    /\ pc[t] = "Sweep_time"
    /\ frame' = [frame EXCEPT ![t].now = clock]
    /\ Goto(t, "Sweep_lock")
    /\ UNCHANGED <<Shared, Env, stack, hist>>

SweepBanned_locked(t) ==
    /\ pc[t] = "Sweep_lock"
    /\ LET kept == SweepExpired(m_banned, frame[t].now)
           removed == kept # m_banned
       IN  /\ m_banned' = kept
           /\ m_is_dirty' = (m_is_dirty \/ removed)
           /\ frame' = [frame EXCEPT ![t].notify_ui = removed]
           /\ IF removed /\ m_client_interface
              THEN Goto(t, "Sweep_notify") /\ UNCHANGED stack
              ELSE Leave(t)
    /\ UNCHANGED <<m_discouraged, ban_db, Env, hist>>

SweepBanned_notify(t) ==
    /\ pc[t] = "Sweep_notify"
    /\ frame' = [frame EXCEPT ![t] = Notified(@)]
    /\ Leave(t)
    /\ UNCHANGED <<Shared, Env, hist>>

\* ------------------------------------------------------------- BanMan::GetBanned
\* The whole body runs under m_cs_banned: SweepBanned (its GetTime, its erasures
\* and its call of the UI) and the copy are one critical section.
GetBanned(t) ==
    /\ pc[t] = "GetBanned"
    /\ LET kept == SweepExpired(m_banned, clock)
           removed == kept # m_banned
       IN  /\ m_banned' = kept
           /\ m_is_dirty' = (m_is_dirty \/ removed)
           /\ frame' = [frame EXCEPT ![t] =
                 [(IF removed THEN Notified(@) ELSE @)
                     EXCEPT !.now = clock, !.notify_ui = removed, !.banmap = kept,
                            !.lockedNotify = @ \/ (removed /\ m_client_interface)]]
    /\ Leave(t)
    /\ UNCHANGED <<m_discouraged, ban_db, Env, hist>>

Call_GetBanned(t) ==
    /\ CanCall(t)
    /\ Called
    /\ frame' = [frame EXCEPT ![t] = NewFrame("GetBanned")]
    /\ Goto(t, "GetBanned")
    /\ stack' = [stack EXCEPT ![t] = <<"Ret">>]
    /\ UNCHANGED <<Shared, Env>>

\* ------------------------------------------------------------- BanMan::SetBanned
SetBanned(t) ==
    /\ CanCall(t)
    /\ Called
    /\ \E banmap \in InputMaps :
          /\ m_banned' = banmap
          /\ frame' = [frame EXCEPT ![t] = [NewFrame("SetBanned") EXCEPT !.banmap = banmap]]
    /\ m_is_dirty' = TRUE
    /\ Goto(t, "Ret")
    /\ UNCHANGED <<m_discouraged, ban_db, Env, stack>>

\* ------------------------------------------------------------- BanMan::DumpBanlist
Call_DumpBanlist(t) ==
    /\ CanCall(t)
    /\ Called
    /\ frame' = [frame EXCEPT ![t] = NewFrame("DumpBanlist")]
    /\ EnterDump(t, "Ret")
    /\ UNCHANGED <<Shared, Env>>

\* if (!BannedSetIsDirty()) return; otherwise GetBanned(banmap)
DumpBanlist_check(t) ==
    /\ pc[t] = "Dump_check"
    /\ IF ~m_is_dirty
       THEN Leave(t)
       ELSE /\ Goto(t, "GetBanned")
            /\ stack' = [stack EXCEPT ![t] = <<"Dump_write">> \o @]
    /\ UNCHANGED <<Shared, Env, frame, hist>>

\* m_ban_db.Write(banmap): succeeds and replaces the file, or fails and leaves it
DumpBanlist_write(t) ==
    /\ pc[t] = "Dump_write"
    /\ \E write_ok \in BOOLEAN :
          /\ ban_db' = IF write_ok THEN Stored(frame[t].banmap) ELSE ban_db
          /\ frame' = [frame EXCEPT ![t].wrote = IF write_ok THEN "ok" ELSE "failed"]
          /\ hist' = [hist EXCEPT !.failed = ~write_ok,
                                   !.anyFailed = @ \/ ~write_ok]
          /\ IF ClearsDirty(write_ok)
             THEN Goto(t, "Dump_clear") /\ UNCHANGED stack
             ELSE Leave(t)
    /\ UNCHANGED <<m_banned, m_is_dirty, m_discouraged, Env>>

\* SetBannedSetDirty(false)
DumpBanlist_clear(t) ==
    /\ pc[t] = "Dump_clear"
    /\ m_is_dirty' = FALSE
    /\ Leave(t)
    /\ UNCHANGED <<m_banned, m_discouraged, ban_db, Env, frame, hist>>

\* ClearBanned with a slip: the flag is not set
ClearBanned_noDirty(t) ==
    /\ CanCall(t)
    /\ Called
    /\ frame' = [frame EXCEPT ![t] = NewFrame("ClearBanned")]
    /\ m_banned' = EmptyMap
    /\ EnterDump(t, "Clear_notify")
    /\ UNCHANGED <<m_is_dirty, m_discouraged, ban_db, Env>>

\* ------------------------------------------------------------- BanMan::ClearBanned
ClearBanned(t) ==
    /\ CanCall(t)
    /\ Called
    /\ frame' = [frame EXCEPT ![t] = NewFrame("ClearBanned")]
    /\ m_banned' = EmptyMap
    /\ m_is_dirty' = TRUE
    /\ EnterDump(t, "Clear_notify")
    /\ UNCHANGED <<m_discouraged, ban_db, Env>>

ClearBanned_notify(t) ==
    /\ pc[t] = "Clear_notify"
    /\ frame' = [frame EXCEPT ![t] = Announced(@)]
    /\ Goto(t, "Ret")
    /\ UNCHANGED <<Shared, Env, stack, hist>>

\* ------------------------------------------------------------- BanMan::Ban
Ban(t) ==
    /\ CanCall(t)
    /\ Called
    /\ \E sub_net \in Subnets, ban_time_offset \in -MaxNegOffset..MaxOffset,
          since_unix_epoch \in BOOLEAN :
          frame' = [frame EXCEPT ![t] =
              [NewFrame("Ban") EXCEPT
                  !.sub_net = sub_net,
                  !.ban_time_offset = ban_time_offset,
                  !.since_unix_epoch = since_unix_epoch]]
    /\ Goto(t, "Ban_time")
    /\ UNCHANGED <<Shared, Env, stack>>

\* the new entry is computed from GetTime() before the lock is taken
Ban_time(t) ==
    /\ pc[t] = "Ban_time"
    /\ frame' = [frame EXCEPT
                    ![t].now = clock,
                    ![t].nBanUntil =
                        NormalizedBanUntil(clock, frame[t].ban_time_offset,
                                           frame[t].since_unix_epoch)]
    /\ Goto(t, "Ban_lock")
    /\ UNCHANGED <<Shared, Env, stack, hist>>

\* the arguments, dead once nBanUntil is computed and no longer looked at
ArgsDone(f) == [f EXCEPT !.ban_time_offset = 0, !.since_unix_epoch = FALSE]

\* the scan and the insertion, under the lock
Ban_locked(t) ==
    /\ pc[t] = "Ban_lock"
    /\ IF BanRejected(m_banned, frame[t].sub_net, frame[t].nBanUntil)
       THEN /\ frame' = [frame EXCEPT ![t] = [ArgsDone(@) EXCEPT !.result = FALSE]]
            /\ Goto(t, "Ret")
            /\ UNCHANGED <<m_banned, m_is_dirty>>
       ELSE /\ m_banned' = BanInsert(m_banned, frame[t].sub_net, frame[t].nBanUntil)
            /\ m_is_dirty' = TRUE
            /\ frame' = [frame EXCEPT ![t].result = TRUE]
            /\ Goto(t, "Ban_notify")
    /\ UNCHANGED <<m_discouraged, ban_db, Env, stack, hist>>

Ban_notify(t) ==
    /\ pc[t] = "Ban_notify"
    /\ frame' = [frame EXCEPT ![t] = Announced(ArgsDone(@))]
    /\ EnterDump(t, "Ret")
    /\ UNCHANGED <<Shared, Env, hist>>

\* Unban with a slip: the entries inside sub_net are erased, not the one keyed sub_net
Unban_erase_overlap(t, sub_net) ==
    /\ CanCall(t)
    /\ Called
    /\ LET inside == {s \in DOMAIN m_banned : IsSuperset(sub_net, s)}
       IN  IF inside = {}
           THEN /\ frame' = [frame EXCEPT ![t] =
                     [NewFrame("Unban") EXCEPT !.sub_net = sub_net, !.result = FALSE]]
                /\ Goto(t, "Ret")
                /\ UNCHANGED <<m_banned, m_is_dirty>>
           ELSE /\ frame' = [frame EXCEPT ![t] =
                     [NewFrame("Unban") EXCEPT !.sub_net = sub_net, !.result = TRUE]]
                /\ m_banned' = Restrict(m_banned, DOMAIN m_banned \ inside)
                /\ m_is_dirty' = TRUE
                /\ Goto(t, "Unban_notify")
    /\ UNCHANGED <<m_discouraged, ban_db, Env, stack>>

\* ------------------------------------------------------------- BanMan::Unban
Unban_erase(t, sub_net) ==
    /\ CanCall(t)
    /\ Called
    /\ IF sub_net \notin DOMAIN m_banned
       THEN /\ frame' = [frame EXCEPT ![t] =
                 [NewFrame("Unban") EXCEPT !.sub_net = sub_net, !.result = FALSE]]
            /\ Goto(t, "Ret")
            /\ UNCHANGED <<m_banned, m_is_dirty>>
       ELSE /\ frame' = [frame EXCEPT ![t] =
                 [NewFrame("Unban") EXCEPT !.sub_net = sub_net, !.result = TRUE]]
            /\ m_banned' = Restrict(m_banned, DOMAIN m_banned \ {sub_net})
            /\ m_is_dirty' = TRUE
            /\ Goto(t, "Unban_notify")
    /\ UNCHANGED <<m_discouraged, ban_db, Env, stack>>

\* Unban(const CSubNet&)
Unban(t) == \E sub_net \in Subnets : Unban_erase(t, sub_net)

\* Unban(const CNetAddr&)
Unban_addr(t) == \E net_addr \in Addrs : Unban_erase(t, SubNetOf(net_addr))

Unban_notify(t) ==
    /\ pc[t] = "Unban_notify"
    /\ frame' = [frame EXCEPT ![t] = Announced(@)]
    /\ EnterDump(t, "Ret")
    /\ UNCHANGED <<Shared, Env, hist>>

\* ------------------------------------------------------------- BanMan::HasBannedAddresses
HasBannedAddresses(t) ==
    /\ CanCall(t)
    /\ Called
    /\ \E sub_net \in Subnets :
          frame' = [frame EXCEPT ![t] =
              [NewFrame("HasBannedAddresses") EXCEPT !.sub_net = sub_net]]
    /\ Goto(t, "Has_time")
    /\ UNCHANGED <<Shared, Env, stack>>

\* auto current_time = GetTime(), before the lock is taken
HasBannedAddresses_time(t) ==
    /\ pc[t] = "Has_time"
    /\ frame' = [frame EXCEPT ![t].now = clock]
    /\ Goto(t, "Has_lock")
    /\ UNCHANGED <<Shared, Env, stack, hist>>

HasBannedAddresses_locked(t) ==
    /\ pc[t] = "Has_lock"
    /\ frame' = [frame EXCEPT ![t].result =
                    HasBannedScan(m_banned, frame[t].sub_net, frame[t].now)]
    /\ Goto(t, "Ret")
    /\ UNCHANGED <<Shared, Env, stack, hist>>

\* ------------------------------------------------------------- discouragement
\* m_discouraged.insert and m_discouraged.contains on the address bytes.  The
\* container is declared outside banman.cpp; it is taken to be the plain set
\* its description gives.
DiscouragedInsert(discouraged, net_addr) == discouraged \cup {net_addr}
DiscouragedContains(discouraged, net_addr) == net_addr \in discouraged

\* Discourage with a slip: the ban set is marked dirty as for a ban
Discourage_marksDirty(t) ==
    /\ CanCall(t)
    /\ Called
    /\ \E net_addr \in Addrs :
          /\ m_discouraged' = DiscouragedInsert(m_discouraged, net_addr)
          /\ frame' = [frame EXCEPT ![t] =
                [NewFrame("Discourage") EXCEPT !.sub_net = SubNetOf(net_addr)]]
    /\ m_is_dirty' = TRUE
    /\ Goto(t, "Ret")
    /\ UNCHANGED <<m_banned, ban_db, Env, stack>>

Discourage(t) ==
    /\ CanCall(t)
    /\ Called
    /\ \E net_addr \in Addrs :
          /\ m_discouraged' = DiscouragedInsert(m_discouraged, net_addr)
          /\ frame' = [frame EXCEPT ![t] =
                [NewFrame("Discourage") EXCEPT !.sub_net = SubNetOf(net_addr)]]
    /\ Goto(t, "Ret")
    /\ UNCHANGED <<m_banned, m_is_dirty, ban_db, Env, stack>>

IsDiscouraged(t) ==
    /\ CanCall(t)
    /\ Called
    /\ \E net_addr \in Addrs :
          frame' = [frame EXCEPT ![t] =
              [NewFrame("IsDiscouraged") EXCEPT
                  !.sub_net = SubNetOf(net_addr),
                  !.result = DiscouragedContains(m_discouraged, net_addr)]]
    /\ Goto(t, "Ret")
    /\ UNCHANGED <<Shared, Env, stack>>

\* ------------------------------------------------------------- return to the caller
\* The public call (or the constructor) returns; hist remembers what it was.
Return(t) ==
    /\ pc[t] = "Ret"
    /\ hist' = [hist EXCEPT
                  !.lastOp = IF frame[t].op \in {"SetBanned", "ClearBanned"}
                             THEN frame[t].op ELSE "other",
                  !.setArg = IF frame[t].op = "SetBanned" THEN frame[t].banmap ELSE EmptyMap]
    /\ frame' = [frame EXCEPT ![t] = NoFrame]
    /\ Goto(t, "Idle")
    /\ UNCHANGED <<Shared, Env, stack>>

\* ------------------------------------------------------------- specifications
\* The state when the constructor begins, on thread 1, at any time of the
\* clock: nothing banned, and a ban file that is unreadable or holds some map.
InitWith(files, limit) ==
    /\ m_banned = EmptyMap
    /\ m_is_dirty = FALSE
    /\ m_discouraged = {}
    /\ m_client_interface \in BOOLEAN
    /\ ban_db \in files
    /\ clock \in 0..MaxTime
    /\ pc = [t \in Threads |-> IF t = 1 THEN "Ctor" ELSE "Idle"]
    /\ stack = [t \in Threads |-> <<>>]
    /\ frame = [t \in Threads |->
                  IF t = 1
                  THEN [NoFrame EXCEPT !.op = "BanMan", !.pre.db = ban_db]
                  ELSE NoFrame]
    /\ hist = [lastOp |-> "none", setArg |-> EmptyMap, failed |-> FALSE,
               anyFailed |-> FALSE, calls |-> 0, limit |-> limit]

Init == InitWith({Unreadable} \cup {Stored(m) : m \in LoadMaps}, MaxCalls)

\* One caller: every call runs to its end before the next begins.
Next ==
    \/ Tick
    \/ BanMan_ctor(1)
    \/ SweepBanned_time(1)
    \/ SweepBanned_locked(1)
    \/ SweepBanned_notify(1)
    \/ GetBanned(1)
    \/ Call_GetBanned(1)
    \/ SetBanned(1)
    \/ Call_DumpBanlist(1)
    \/ DumpBanlist_check(1)
    \/ DumpBanlist_write(1)
    \/ DumpBanlist_clear(1)
    \/ ClearBanned(1)
    \/ ClearBanned_notify(1)
    \/ Ban(1)
    \/ Ban_time(1)
    \/ Ban_locked(1)
    \/ Ban_notify(1)
    \/ Unban(1)
    \/ Unban_addr(1)
    \/ Unban_notify(1)
    \/ HasBannedAddresses(1)
    \/ HasBannedAddresses_time(1)
    \/ HasBannedAddresses_locked(1)
    \/ Discourage(1)
    \/ IsDiscouraged(1)
    \/ Return(1)

Spec == Init /\ [][Next]_vars

\* Several callers: after the constructor, threads call Ban, Unban, ClearBanned
\* and DumpBanlist concurrently.  The calls of one such run overlap within one
\* second of GetTime(): the clock is the one the run started with.
NextMT ==
    \/ BanMan_ctor(1)
    \/ \E t \in Threads : SweepBanned_time(t)
    \/ \E t \in Threads : SweepBanned_locked(t)
    \/ \E t \in Threads : SweepBanned_notify(t)
    \/ \E t \in Threads : GetBanned(t)
    \/ \E t \in Threads : Call_DumpBanlist(t)
    \/ \E t \in Threads : DumpBanlist_check(t)
    \/ \E t \in Threads : DumpBanlist_write(t)
    \/ \E t \in Threads : DumpBanlist_clear(t)
    \/ \E t \in Threads : ClearBanned(t)
    \/ \E t \in Threads : ClearBanned_notify(t)
    \/ \E t \in Threads : Ban(t)
    \/ \E t \in Threads : Ban_time(t)
    \/ \E t \in Threads : Ban_locked(t)
    \/ \E t \in Threads : Ban_notify(t)
    \/ \E t \in Threads : Unban(t)
    \/ \E t \in Threads : Unban_notify(t)
    \/ \E t \in Threads : Return(t)

SpecMT == Init /\ [][NextMT]_vars

\* A registry that starts empty (no ban file, or one holding the empty map)
\* and is never given a map by SetBanned: its entries all come from Ban.
InitFresh == InitWith({Unreadable, Stored(EmptyMap)}, MaxFreshCalls)

NextFresh ==
    \/ Tick
    \/ BanMan_ctor(1)
    \/ SweepBanned_time(1)
    \/ SweepBanned_locked(1)
    \/ SweepBanned_notify(1)
    \/ GetBanned(1)
    \/ Call_GetBanned(1)
    \/ Call_DumpBanlist(1)
    \/ DumpBanlist_check(1)
    \/ DumpBanlist_write(1)
    \/ DumpBanlist_clear(1)
    \/ ClearBanned(1)
    \/ ClearBanned_notify(1)
    \/ Ban(1)
    \/ Ban_time(1)
    \/ Ban_locked(1)
    \/ Ban_notify(1)
    \/ Unban(1)
    \/ Unban_addr(1)
    \/ Unban_notify(1)
    \/ Return(1)

SpecFresh == InitFresh /\ [][NextFresh]_vars

\* One caller while the clock stands still: GetTime() returns the same second
\* throughout the run.
NextStill ==
    \/ BanMan_ctor(1)
    \/ SweepBanned_time(1)
    \/ SweepBanned_locked(1)
    \/ SweepBanned_notify(1)
    \/ GetBanned(1)
    \/ Call_GetBanned(1)
    \/ SetBanned(1)
    \/ Call_DumpBanlist(1)
    \/ DumpBanlist_check(1)
    \/ DumpBanlist_write(1)
    \/ DumpBanlist_clear(1)
    \/ ClearBanned(1)
    \/ ClearBanned_notify(1)
    \/ Ban(1)
    \/ Ban_time(1)
    \/ Ban_locked(1)
    \/ Ban_notify(1)
    \/ Unban(1)
    \/ Unban_addr(1)
    \/ Unban_notify(1)
    \/ HasBannedAddresses(1)
    \/ HasBannedAddresses_time(1)
    \/ HasBannedAddresses_locked(1)
    \/ Discourage(1)
    \/ IsDiscouraged(1)
    \/ Return(1)

SpecStill == Init /\ [][NextStill]_vars

\* ------------------------------------------------------------- observation
\* The single caller of Spec is thread 1; F is its current call.
F == frame[1]
AtRet(op) == pc[1] = "Ret" /\ F.op = op
\* largest nBanUntil a run can produce
Horizon == MaxTime + MaxOffset + MaxUntil + m_default_ban_time
\* some entry of map m covering address x is in force after time t
Covered(m, x, t) == \E s \in DOMAIN m : x \in s /\ m[s] > t
\* the call that is returning began with a broader-or-equal entry at least as long
CoveredRequest ==
    \E a \in DOMAIN F.pre.banned :
        F.sub_net \subseteq a /\ F.pre.banned[a] >= F.nBanUntil
\* the call that is returning began with the one entry b, narrower or equal and shorter
OnlyNarrowerShorter(b) ==
    /\ DOMAIN F.pre.banned = {b}
    /\ b \subseteq F.sub_net
    /\ F.nBanUntil > F.pre.banned[b]

\* C1: a Ban of B while some A containing B (or B itself) is banned until at
\* least the new expiry returns false and leaves the ban map, the dirty flag
\* and the ban file as they were, calls the UI not at all and writes nothing.
C1_RejectedBanChangesNothing ==
    (AtRet("Ban") /\ CoveredRequest) =>
        /\ F.result = FALSE
        /\ m_banned = F.pre.banned
        /\ m_is_dirty = F.pre.dirty
        /\ ban_db = F.pre.db
        /\ F.notified = 0
        /\ F.wrote = "none"

\* C1 witness: a rejected Ban whose scan had also met a narrower, shorter entry
\* (one it would have marked for deletion), which is still in the map.
C1_Witness ==
    /\ AtRet("Ban") /\ CoveredRequest /\ F.result = FALSE
    /\ \E c \in DOMAIN m_banned :
          c \subseteq F.sub_net /\ c # F.sub_net /\ m_banned[c] < F.nBanUntil

\* C2 as stated: from a map holding only B, a Ban of A (containing B) with a
\* later expiry returns true and leaves A as the only key of the map.
C2_Original ==
    \A b \in Subnets :
        (AtRet("Ban") /\ OnlyNarrowerShorter(b)) =>
            F.result = TRUE /\ DOMAIN m_banned = {F.sub_net}

\* C2 amended: such a Ban returns true and removes B's entry; A, with the new
\* expiry, is then the only key, unless the new expiry is already earlier than
\* the time read by the sweep of the flush that ends the call: then that sweep
\* has removed A too and the map is empty.
C2_WiderLongerBanReplaces ==
    \A b \in Subnets :
        (AtRet("Ban") /\ OnlyNarrowerShorter(b)) =>
            /\ F.result = TRUE
            /\ DOMAIN m_banned \subseteq {F.sub_net}
            /\ (F.sub_net \in DOMAIN m_banned) <=> ~(F.now > F.nBanUntil)
            /\ \A s \in DOMAIN m_banned : m_banned[s] = F.nBanUntil

\* C2 witness: B strictly inside A was the only entry, and A alone is banned now.
C2_Witness ==
    \E b \in Subnets :
        /\ AtRet("Ban") /\ OnlyNarrowerShorter(b)
        /\ b # F.sub_net
        /\ DOMAIN m_banned = {F.sub_net}

\* C3: with one caller, when a Ban or Unban that returns true, or a ClearBanned,
\* returns and its save did not fail, the save was made, the ban file holds
\* exactly the in-memory map and the dirty flag is false.
C3_WriteThrough ==
    (/\ pc[1] = "Ret"
     /\ \/ F.op \in {"Ban", "Unban"} /\ F.result = TRUE
        \/ F.op = "ClearBanned"
     /\ F.wrote # "failed") =>
        /\ F.wrote = "ok"
        /\ ban_db = Stored(m_banned)
        /\ m_is_dirty = FALSE

\* C3 witness: an Unban that removed an entry has returned and the file changed.
C3_Witness ==
    /\ AtRet("Unban") /\ F.result = TRUE /\ F.wrote = "ok"
    /\ ban_db # F.pre.db
    /\ ban_db = Stored(m_banned)

\* thread t is inside DumpBanlist
InFlush(t) ==
    \/ pc[t] \in {"Dump_check", "Dump_write", "Dump_clear"}
    \/ \E i \in 1..Len(stack[t]) : stack[t][i] \in {"Dump_check", "Dump_write"}

\* C4: with concurrent callers and no failed save, whenever no thread is inside
\* DumpBanlist (or the constructor) and the dirty flag is false, the ban file
\* holds exactly the in-memory map: no mutation that set the flag is left
\* unsaved with the flag false.
C4_NoLostUpdate ==
    (/\ Constructed
     /\ ~hist.anyFailed
     /\ \A t \in Threads : ~InFlush(t)
     /\ m_is_dirty = FALSE) =>
        ban_db = Stored(m_banned)

\* C5: HasBannedAddresses does not count an entry whose nBanUntil has passed,
\* also while the entry is still in the map; and when a sweep (of GetBanned or
\* of DumpBanlist) has run, no such entry is left in the map.
C5_ExpiredNotCountedThenSwept ==
    /\ (/\ AtRet("HasBannedAddresses")
        /\ \A s \in DOMAIN m_banned :
              (s \subseteq F.sub_net \/ F.sub_net \subseteq s) => F.now > m_banned[s])
          => F.result = FALSE
    /\ (\/ pc[1] \in {"Dump_check", "Dump_write"}
        \/ AtRet("GetBanned")
        \/ AtRet("DumpBanlist"))
          => \A s \in DOMAIN m_banned : ~(F.now > m_banned[s])

\* C5 witness: the query returned false although an overlapping entry, expired,
\* is still in the map.
C5_Witness ==
    /\ AtRet("HasBannedAddresses") /\ F.result = FALSE
    /\ \E s \in DOMAIN m_banned :
          (s \subseteq F.sub_net \/ F.sub_net \subseteq s) /\ F.now > m_banned[s]

\* C6: with one caller, after a failed save the dirty flag stays true until a
\* save succeeds and the failed save left the map as it was snapshotted; the
\* Ban or Unban whose save failed still returns true; a DumpBanlist that finds
\* the flag set attempts the save; and a call whose save succeeded ends with
\* the flag false and the file equal to the map.
C6_FailedSaveRetried ==
    /\ hist.failed => m_is_dirty
    /\ (F.wrote = "failed" /\ pc[1] \in {"Ret", "Clear_notify"}) => m_banned = F.banmap
    /\ (pc[1] = "Ret" /\ F.op \in {"Ban", "Unban"} /\ F.wrote = "failed") => F.result = TRUE
    /\ (AtRet("DumpBanlist") /\ F.pre.dirty) => F.wrote # "none"
    /\ (pc[1] = "Ret" /\ F.wrote = "ok") => (m_is_dirty = FALSE /\ ban_db = Stored(m_banned))

\* C6 witness: a DumpBanlist that began after a failed save has saved.
C6_Witness ==
    /\ AtRet("DumpBanlist") /\ F.pre.failed /\ F.pre.dirty
    /\ F.wrote = "ok" /\ m_is_dirty = FALSE /\ ban_db = Stored(m_banned)

\* C7: GetBanned called right after SetBanned(M) returns the entries of M that
\* have not expired at the time GetBanned reads (not now > nBanUntil), each with
\* the nBanUntil it has in M, and nothing else.
C7_SetGetRoundTrip ==
    (AtRet("GetBanned") /\ hist.lastOp = "SetBanned") =>
        /\ DOMAIN F.banmap = {s \in DOMAIN hist.setArg : hist.setArg[s] >= F.now}
        /\ \A s \in DOMAIN F.banmap : F.banmap[s] = hist.setArg[s]

\* C7 witness: of a map of several entries some were expired and left out, the
\* others were returned.
C7_Witness ==
    /\ AtRet("GetBanned") /\ hist.lastOp = "SetBanned"
    /\ F.banmap # EmptyMap
    /\ DOMAIN F.banmap # DOMAIN hist.setArg

\* C8 as stated: after a ClearBanned the map is empty, and the registry is
\* dirty after the first of two calls in a row and not after the second.
C8_Original ==
    AtRet("ClearBanned") =>
        /\ m_banned = EmptyMap
        /\ m_is_dirty <=> (hist.lastOp # "ClearBanned")

\* C8 amended: after each of two ClearBanned calls in a row the map is empty;
\* each call marks the registry dirty and attempts a save, so after either call
\* the dirty flag is false if that call's save succeeded and true if it failed.
C8_ClearTwice ==
    AtRet("ClearBanned") =>
        /\ m_banned = EmptyMap
        /\ F.wrote # "none"
        /\ m_is_dirty <=> (F.wrote = "failed")

\* C8 witness: the second of two ClearBanned calls in a row has saved again.
C8_Witness ==
    /\ AtRet("ClearBanned") /\ hist.lastOp = "ClearBanned"
    /\ F.wrote = "ok" /\ m_is_dirty = FALSE /\ m_banned = EmptyMap

\* C9: a constructor that could not read the ban file ends with an empty map
\* and has attempted a save; if the save succeeded the dirty flag is false and
\* the file holds the empty map, and if it failed the flag is true and the file
\* is as unreadable as before.
C9_UnreadableStoreRecreated ==
    (AtRet("BanMan") /\ ~F.pre.db.ok) =>
        /\ m_banned = EmptyMap
        /\ F.wrote # "none"
        /\ F.wrote = "ok" => (m_is_dirty = FALSE /\ ban_db = Stored(EmptyMap))
        /\ F.wrote = "failed" => (m_is_dirty = TRUE /\ ban_db = Unreadable)

\* C9 witness: the constructor found no readable file and wrote an empty one.
C9_Witness ==
    /\ AtRet("BanMan") /\ ~F.pre.db.ok
    /\ F.wrote = "ok" /\ ban_db = Stored(EmptyMap)

\* C10: when a Ban returns (true or false), every address that an entry of the
\* map the call began with covered beyond a time t, for t from the current time
\* on, is still covered beyond t by an entry of the map.
C10_CoverageMonotone ==
    AtRet("Ban") =>
        \A x \in Addrs, t \in clock..Horizon :
            Covered(F.pre.banned, x, t) => Covered(m_banned, x, t)

\* C10 witness: a Ban that deleted a narrower entry still in force has returned,
\* and the address of that entry is still covered.
C10_Witness ==
    /\ AtRet("Ban") /\ F.result = TRUE
    /\ \E c \in DOMAIN F.pre.banned, x \in Addrs :
          /\ c \notin DOMAIN m_banned
          /\ x \in c
          /\ Covered(F.pre.banned, x, clock)
          /\ Covered(m_banned, x, clock)

\* the two subnets overlap: one contains the other
Overlap(a, b) == a \subseteq b \/ b \subseteq a

\* C11: Unban(K) looks for the key K only.  If K is a key, then right after the
\* critical section the entry is gone, every other entry is as it was, the
\* dirty flag is set and the call is returning true.  If K is not a key the
\* call returns false with the map, the dirty flag and the ban file as they
\* were, no call of the UI and no save, also when broader or narrower entries
\* overlap K.  When an Unban that returns true removed the only entry
\* overlapping a subnet q inside K, HasBannedAddresses(q) is false on the map
\* it leaves, at every time.
C11_UnbanExactKey ==
    /\ pc[1] = "Unban_notify" =>
          /\ F.sub_net \in DOMAIN F.pre.banned
          /\ F.result = TRUE
          /\ m_banned = Restrict(F.pre.banned, DOMAIN F.pre.banned \ {F.sub_net})
          /\ m_is_dirty = TRUE
    /\ (AtRet("Unban") /\ F.sub_net \notin DOMAIN F.pre.banned) =>
          /\ F.result = FALSE
          /\ m_banned = F.pre.banned
          /\ m_is_dirty = F.pre.dirty
          /\ ban_db = F.pre.db
          /\ F.notified = 0
          /\ F.wrote = "none"
    /\ (AtRet("Unban") /\ F.sub_net \in DOMAIN F.pre.banned) =>
          /\ F.result = TRUE
          /\ F.sub_net \notin DOMAIN m_banned
          /\ \A q \in Subnets :
                (/\ q \subseteq F.sub_net
                 /\ \A s \in DOMAIN F.pre.banned \ {F.sub_net} : ~Overlap(s, q)) =>
                    \A time \in 0..Horizon : ~HasBannedScan(m_banned, q, time)

\* C11 witness: an Unban of a single host that is no key, while the subnet
\* containing it is banned and in force, has returned false.
C11_Witness ==
    /\ AtRet("Unban") /\ F.result = FALSE
    /\ \E s \in DOMAIN m_banned :
          /\ F.sub_net \subseteq s /\ s # F.sub_net
          /\ HasBannedScan(m_banned, F.sub_net, clock)

\* the caller holds a map copied by GetBanned: the one GetBanned returned to it,
\* or the snapshot DumpBanlist is about to hand, or has handed, to Write
HoldsSnapshot ==
    \/ AtRet("GetBanned")
    \/ pc[1] = "Dump_write"
    \/ F.wrote = "ok"

\* C12 as stated: every entry of a map returned by GetBanned, and of every
\* snapshot DumpBanlist passes to Write, has now < nBanUntil, the test of
\* HasBannedAddresses, at the time GetBanned read.
C12_Original ==
    HoldsSnapshot => \A s \in DOMAIN F.banmap : F.now < F.banmap[s]

\* C12 amended: every such entry has now <= nBanUntil (the sweep removes an
\* entry only when now > nBanUntil), the copy is the swept map, and a save
\* that succeeded has put exactly that snapshot in the ban file.  An entry with
\* nBanUntil = now is still returned and saved, although HasBannedAddresses no
\* longer counts it.
C12_SnapshotNotPastExpiry ==
    /\ HoldsSnapshot => \A s \in DOMAIN F.banmap : F.now <= F.banmap[s]
    /\ (AtRet("GetBanned") \/ pc[1] = "Dump_write") => F.banmap = m_banned
    /\ F.wrote = "ok" => ban_db = Stored(F.banmap)

\* C12 witness: GetBanned has swept an entry and returned another whose
\* nBanUntil is the current second, which HasBannedAddresses does not count.
C12_Witness ==
    /\ AtRet("GetBanned")
    /\ DOMAIN F.banmap # DOMAIN F.pre.banned
    /\ \E s \in DOMAIN F.banmap :
          F.banmap[s] = F.now /\ ~HasBannedScan(F.banmap, s, F.now)

\* C13: in each of Ban, Unban and ClearBanned, when there is a UI, the call of
\* BannedListChanged for the mutation comes before the Write of the mutation:
\* once the call has attempted its save it has already notified.
C13_NotifyBeforeSave ==
    (/\ m_client_interface
     /\ F.op \in {"Ban", "Unban", "ClearBanned"}
     /\ F.wrote # "none") =>
        F.announced

\* C14: BannedListChanged is never called by a thread that holds m_cs_banned.
C14_NotifyOutsideLock ==
    \A t \in Threads : ~frame[t].lockedNotify

\* C16: with a UI, a Ban, Unban or ClearBanned calls BannedListChanged if and
\* only if it changed the map: a rejected Ban and an Unban of an absent key
\* never, a Ban or Unban that returns true always, and a ClearBanned only when
\* the map it began with had entries.
C16_NotifyIffChanged ==
    (m_client_interface /\ pc[1] = "Ret") =>
        /\ F.op \in {"Ban", "Unban"} => (F.notified > 0 <=> F.result = TRUE)
        /\ F.op = "ClearBanned" => (F.notified > 0 <=> F.pre.banned # EmptyMap)

\* the constructor is returning after a successful Read
LoadedCtor == AtRet("BanMan") /\ F.pre.db.ok
\* the entries of the loaded map that the constructor's sweep removed
SweptAtLoad == {s \in DOMAIN F.pre.db.map : F.now > F.pre.db.map[s]}

\* C15 as stated: after a successful load the map is the loaded map without its
\* expired entries, and if the sweep removed anything the ban file has been
\* written back by the end of the constructor and no longer holds them.
C15_Original ==
    LoadedCtor =>
        /\ m_banned = Restrict(F.pre.db.map, DOMAIN F.pre.db.map \ SweptAtLoad)
        /\ SweptAtLoad # {} => (ban_db.ok /\ DOMAIN ban_db.map \cap SweptAtLoad = {})

\* C15 amended: after a successful load the map is the loaded map without its
\* expired entries; the constructor writes nothing, so the ban file is as it was
\* found and still holds the removed entries; the dirty flag is true exactly
\* when the sweep removed something, which leaves the write to a later flush.
C15_LoadSweepsWithoutSave ==
    LoadedCtor =>
        /\ m_banned = Restrict(F.pre.db.map, DOMAIN F.pre.db.map \ SweptAtLoad)
        /\ F.wrote = "none"
        /\ ban_db = F.pre.db
        /\ m_is_dirty <=> (SweptAtLoad # {})

\* C15 witness: the constructor swept a loaded entry and returns with the flag
\* set and the entry still in the ban file.
C15_Witness ==
    /\ LoadedCtor
    /\ SweptAtLoad # {}
    /\ m_is_dirty
    /\ m_banned = EmptyMap
    /\ SweptAtLoad \subseteq DOMAIN ban_db.map

\* C17: the nBanUntil a Ban computes, and stores when it inserts, is
\* now + m_default_ban_time when ban_time_offset <= 0, whatever
\* since_unix_epoch is; for ban_time_offset > 0 it is ban_time_offset when
\* since_unix_epoch is true and now + ban_time_offset when it is false; now
\* being the time the call read.
C17_ResolvedExpiry ==
    LET resolved ==
            IF F.ban_time_offset <= 0 THEN F.now + m_default_ban_time
            ELSE IF F.since_unix_epoch THEN F.ban_time_offset
            ELSE F.now + F.ban_time_offset
    IN  /\ pc[1] = "Ban_lock" => F.nBanUntil = resolved
        /\ pc[1] = "Ban_notify" =>
              (F.sub_net \in DOMAIN m_banned /\ m_banned[F.sub_net] = resolved)

\* C17 witness: a Ban with a negative offset and since_unix_epoch set, called
\* after time 0, has stored now + m_default_ban_time.
C17_Witness ==
    /\ pc[1] = "Ban_notify"
    /\ F.ban_time_offset < 0 /\ F.since_unix_epoch /\ F.now > 0
    /\ m_banned[F.sub_net] = F.now + m_default_ban_time

\* C18: Discourage(a) puts a in the discouraged set and leaves the ban map, the
\* dirty flag and the ban file as they were, with no save and no call of the
\* UI; IsDiscouraged(a) answers whether a is in the set; no step of any call
\* ever takes an address out of the set, and only a step of Discourage puts
\* one in.
C18_DiscouragedIndependent ==
    /\ [](AtRet("Discourage") =>
            /\ F.sub_net \subseteq m_discouraged
            /\ m_banned = F.pre.banned
            /\ m_is_dirty = F.pre.dirty
            /\ ban_db = F.pre.db
            /\ F.wrote = "none"
            /\ F.notified = 0)
    /\ [](AtRet("IsDiscouraged") => (F.result <=> F.sub_net \subseteq m_discouraged))
    /\ [][m_discouraged \subseteq m_discouraged']_vars
    /\ [][m_discouraged' # m_discouraged => frame'[1].op = "Discourage"]_vars

\* C18 witness: an address discouraged by an earlier call is still reported
\* discouraged after a ClearBanned, and the other address is not.
C18_Witness ==
    /\ AtRet("ClearBanned")
    /\ \E a \in Addrs :
          /\ DiscouragedContains(m_discouraged, a)
          /\ \E b \in Addrs : ~DiscouragedContains(m_discouraged, b)

\* C19: in a registry that started empty and was never given a map by
\* SetBanned, the map never holds two distinct entries X and Y with X
\* containing Y and nBanUntil of X later than nBanUntil of Y.
C19_NoDominatedEntry ==
    \A X \in DOMAIN m_banned, Y \in DOMAIN m_banned :
        ~(X # Y /\ IsSuperset(X, Y) /\ m_banned[X] > m_banned[Y])

\* C19 witness: a Ban of a broader subnet has removed a narrower, shorter
\* entry and sits in the map with another narrower entry that outlives it.
C19_Witness ==
    /\ pc[1] = "Ban_notify"
    /\ \E c \in DOMAIN F.pre.banned :
          c # F.sub_net /\ IsSuperset(F.sub_net, c) /\ c \notin DOMAIN m_banned
    /\ \E d \in DOMAIN m_banned :
          d # F.sub_net /\ IsSuperset(F.sub_net, d) /\ m_banned[d] >= m_banned[F.sub_net]

\* C20 as stated: when a Ban returns true, with no other caller and the clock
\* standing still, the map holds the key sub_net with the resolved nBanUntil.
C20_Original ==
    (AtRet("Ban") /\ F.result = TRUE) =>
        (F.sub_net \in DOMAIN m_banned /\ m_banned[F.sub_net] = F.nBanUntil)

\* C20 amended: such a Ban has stored the key sub_net with the resolved
\* nBanUntil when it leaves its critical section; when it returns the entry is
\* still there with that nBanUntil if nBanUntil is not earlier than the current
\* time, and is gone (swept by the DumpBanlist that ends the call) if it is.
C20_BanStoresUnlessPast ==
    /\ pc[1] = "Ban_notify" =>
          (F.sub_net \in DOMAIN m_banned /\ m_banned[F.sub_net] = F.nBanUntil)
    /\ (AtRet("Ban") /\ F.result = TRUE) =>
          /\ (F.sub_net \in DOMAIN m_banned) <=> ~(clock > F.nBanUntil)
          /\ F.sub_net \in DOMAIN m_banned => m_banned[F.sub_net] = F.nBanUntil

\* C20 witness: a Ban with an expiry already past has returned true and its
\* entry is not in the map.
C20_Witness ==
    /\ AtRet("Ban") /\ F.result = TRUE
    /\ clock > F.nBanUntil
    /\ F.sub_net \notin DOMAIN m_banned

====
